---- MODULE Spec2Model ----
(***************************************************************************)
(* Model of backend/server.py of Breed_sense: the mock breed classifier    *)
(* (_mock_breed_choice), the upload heuristic (_looks_like_cow) and the    *)
(* /api/predict handler with its insert-then-prune use of the Mongo        *)
(* collection db.predictions and of the uploads directory.                 *)
(*                                                                         *)
(* A Python str is a sequence of one-character strings, so that ord(),     *)
(* str.lower(), "in" and Path.suffix are computed character by character.  *)
(***************************************************************************)
EXTENDS Integers, Sequences, FiniteSets, TLC

----------------------------------------------------------------------------
(* Bounds of the model *)

\* uploads accepted in a behaviour of the one-at-a-time specification
MaxReq == 3
\* request handlers that can be in flight at the same time, and uploads
\* accepted in a behaviour of the interleaved specifications
MaxConc == 2
\* store operations and file operations that fail in one behaviour
MaxFaults == 2
\* pieces concatenated to form an argument of the two pure functions
MaxParts == 3

----------------------------------------------------------------------------
(* Python str *)

\* Optional[str]: None is a value distinct from every str
None == <<"<None>">>

Lowers == <<"a","b","c","d","e","f","g","h","i","j","k","l","m",
            "n","o","p","q","r","s","t","u","v","w","x","y","z">>
Uppers == <<"A","B","C","D","E","F","G","H","I","J","K","L","M",
            "N","O","P","Q","R","S","T","U","V","W","X","Y","Z">>
Digits == <<"0","1","2","3","4","5","6","7","8","9">>

Range(s) == {s[i] : i \in 1..Len(s)}

IndexOf(s, ch) == CHOOSE i \in 1..Len(s) : s[i] = ch

\* the characters of the model
Chars == Range(Lowers) \cup Range(Uppers) \cup Range(Digits) \cup {"+", ".", "/"}

CodePoints ==
    [ch \in Chars |->
        IF ch \in Range(Lowers) THEN 96 + IndexOf(Lowers, ch)
        ELSE IF ch \in Range(Uppers) THEN 64 + IndexOf(Uppers, ch)
        ELSE IF ch \in Range(Digits) THEN 47 + IndexOf(Digits, ch)
        ELSE IF ch = "+" THEN 43
        ELSE IF ch = "." THEN 46
        ELSE 47]

\* ord(ch): the code point of an ASCII character
ord(ch) == CodePoints[ch]

LowerCase ==
    [ch \in Chars |->
        IF ch \in Range(Uppers) THEN Lowers[IndexOf(Uppers, ch)] ELSE ch]

\* str.lower() on one character
lowerCh(ch) == LowerCase[ch]

\* str.lower()
lower(s) == [i \in 1..Len(s) |-> lowerCh(s[i])]

\* kw in name (substring test)
Contains(name, kw) ==
    \E i \in 1..(Len(name) - Len(kw) + 1) : SubSeq(name, i, i + Len(kw) - 1) = kw

RECURSIVE SplitParts(_, _, _, _)
\* str.split("/") : the components of s separated by "/"
SplitParts(s, i, cur, acc) ==
    IF i > Len(s) THEN Append(acc, cur)
    ELSE IF s[i] = "/" THEN SplitParts(s, i + 1, <<>>, Append(acc, cur))
    ELSE SplitParts(s, i + 1, Append(cur, s[i]), acc)

\* Path(p).name : the last component, empty and "." components dropped
PathName(p) ==
    LET parts == SelectSeq(SplitParts(p, 1, <<>>, <<>>),
                           LAMBDA c : c # <<>> /\ c # <<".">>)
    IN IF parts = <<>> THEN <<>> ELSE parts[Len(parts)]

\* name.rfind(".") counted from 1; 0 when there is no dot
RFindDot(name) ==
    IF \E i \in 1..Len(name) : name[i] = "."
    THEN CHOOSE i \in 1..Len(name) :
            name[i] = "." /\ \A j \in (i+1)..Len(name) : name[j] # "."
    ELSE 0

\* Path(p).suffix : from the last dot of the name, unless that dot is the
\* first or the last character of the name
suffix(p) ==
    LET name == PathName(p)
        i == RFindDot(name)
    IN IF 1 < i /\ i < Len(name) THEN SubSeq(name, i, Len(name)) ELSE <<>>

----------------------------------------------------------------------------
(* Module constants, server.py:87-90 *)

BREEDS == <<"Jersey", "Holstein", "Gir", "Sahiwal", "Tharparkar">>

ALLOWED_CT == { <<"i","m","a","g","e","/","j","p","e","g">>,
                <<"i","m","a","g","e","/","j","p","g">>,
                <<"i","m","a","g","e","/","p","n","g">>,
                <<"i","m","a","g","e","/","w","e","b","p">> }

ALLOWED_EXT == { <<".","j","p","g">>, <<".","j","p","e","g">>,
                 <<".","p","n","g">>, <<".","w","e","b","p">> }

COW_KEYWORDS == { <<"c","o","w">>, <<"c","a","t","t","l","e">>, <<"b","u","l","l">>,
                  <<"c","a","l","f">>, <<"o","x">>, <<"h","e","i","f","e","r">>,
                  <<"j","e","r","s","e","y">>, <<"h","o","l","s","t","e","i","n">>,
                  <<"g","i","r">>, <<"s","a","h","i","w","a","l">>,
                  <<"t","h","a","r","p","a","r","k","a","r">> }

\* the number of predictions kept by the pruning
RETAIN == 20

----------------------------------------------------------------------------
(* _mock_breed_choice *)

\* h = 0
HashInit == 0

HashStepWide(h, ch) == (h * 131 + ord(ch)) % 2000006
\* h = (h * 131 + ord(ch)) % 1000003
HashStep(h, ch) == (h * 131 + ord(ch)) % 1000003

RECURSIVE HashFold(_, _, _)
\* the value of h after the loop over seed_text[i..]
HashFold(h, seed_text, i) ==
    IF i > Len(seed_text) THEN h
    ELSE HashFold(HashStep(h, seed_text[i]), seed_text, i + 1)

\* idx = h % len(BREEDS); BREEDS[idx]
BreedAt(h) == BREEDS[(h % Len(BREEDS)) + 1]

_mock_breed_choice(seed_text) == BreedAt(HashFold(HashInit, seed_text, 1))

----------------------------------------------------------------------------
(* _looks_like_cow *)

LooksNoExtCheck(filename, content_type) ==
    IF content_type = None \/ content_type = <<>>
       \/ lower(content_type) \notin ALLOWED_CT
    THEN FALSE
    ELSE IF filename # None /\ filename # <<>>
    THEN \E kw \in COW_KEYWORDS : Contains(lower(filename), kw)
    ELSE FALSE

_looks_like_cow(filename, content_type) ==
    IF content_type = None \/ content_type = <<>>
       \/ lower(content_type) \notin ALLOWED_CT
    THEN FALSE
    ELSE IF filename # None /\ filename # <<>>
    THEN IF lower(suffix(filename)) \notin ALLOWED_EXT
         THEN FALSE
         ELSE \E kw \in COW_KEYWORDS : Contains(lower(filename), kw)
    ELSE FALSE

----------------------------------------------------------------------------
(* datetime and its ISO string *)

TwoDigits(n) == <<Digits[(n \div 10) + 1], Digits[(n % 10) + 1]>>

\* datetime.isoformat() of the instant t, counted in half seconds: the
\* seconds field, the fraction only when the microsecond is not 0, and
\* the UTC offset.  The fields before the seconds are the same for every
\* instant of the model and are left out.
isoformat(t) ==
    TwoDigits(t \div 2) \o (IF t % 2 = 0 THEN <<>> ELSE <<".", "5">>) \o <<"+">>

RECURSIVE StrLess(_, _)
\* a < b in the order Mongo sorts strings in (by code point)
StrLess(a, b) ==
    IF b = <<>> THEN FALSE
    ELSE IF a = <<>> THEN TRUE
    ELSE IF ord(Head(a)) < ord(Head(b)) THEN TRUE
    ELSE IF ord(Head(a)) > ord(Head(b)) THEN FALSE
    ELSE StrLess(Tail(a), Tail(b))


----------------------------------------------------------------------------
(* State *)

VARIABLES
    store,      \* db.predictions: the set of stored documents
    files,      \* the files in UPLOADS_DIR
    clock,      \* datetime.now(timezone.utc), in half seconds
    nreq,       \* uploads accepted so far
    nfaults,    \* operations that have failed so far
    faulted,    \* classes of store operation that have failed so far
    req,        \* per handler slot: the locals of predict_cattle_breed
    resp,       \* the response of the read handler that has just returned
    fname,      \* pure functions: the filename argument
    ctype,      \* pure functions: the content_type argument
    looks,      \* the value returned by _looks_like_cow, once called
    seed_text,  \* the argument of _mock_breed_choice
    hpc,        \* _mock_breed_choice: position in the function
    h,          \* _mock_breed_choice: the accumulator h
    pos,        \* _mock_breed_choice: index of the next character
    choice      \* the value returned by _mock_breed_choice

serverVars == <<store, files, clock, nreq, nfaults, faulted, req>>
pureVars == <<fname, ctype, looks, seed_text, hpc, h, pos, choice>>
vars == <<store, files, clock, nreq, nfaults, faulted, req, resp,
          fname, ctype, looks, seed_text, hpc, h, pos, choice>>

Slots == 1..MaxConc

PruneSteps == {"count", "find", "delete"}

\* strings used by the uploads of the server model
S_cow_jpg == <<"c","o","w",".","j","p","g">>
S_GIR_PNG == <<"G","I","R",".","P","N","G">>
S_sun_jpg == <<"s","u","n",".","j","p","g">>
S_image_jpeg == <<"i","m","a","g","e","/","j","p","e","g">>
S_IMAGE_PNG == <<"I","M","A","G","E","/","P","N","G">>
S_default == <<"d","e","f","a","u","l","t">>

\* the (file.filename, file.content_type) of the uploads received: one
\* the handler accepts, and one for each way it rejects
Uploads ==
    { [filename |-> S_cow_jpg, content_type |-> S_IMAGE_PNG],
      [filename |-> S_sun_jpg, content_type |-> S_image_jpeg],
      [filename |-> S_cow_jpg, content_type |-> None],
      [filename |-> None, content_type |-> S_image_jpeg] }

\* uuid.uuid4() at the c-th call of request n: a value no other call returns
uuid4(n, c) == <<n, c>>

NoPath == [uuid |-> <<0, 0>>, suffix |-> <<>>]
NoDoc == [id |-> <<0, 0>>, _id |-> <<0, 0>>, filename |-> None,
          content_type |-> None, breed |-> "", timestamp |-> <<>>]

IdleReq == [pc |-> "idle", n |-> 0, filename |-> None, content_type |-> None,
            temp_path |-> NoPath, predicted |-> "", doc |-> NoDoc,
            total |-> 0, to_delete |-> {}, status |-> 0, body |-> "",
            issued |-> {}, failed |-> {}, logged |-> 0,
            before |-> 0, tries |-> 0, inserted |-> 0]

\* no read handler has just returned
NoResp == [op |-> "none"]

PredictionObjectId(uuid, filename, content_type, breed, now) ==
    [id |-> uuid, _id |-> <<uuid[1], 0>>, filename |-> filename,
     content_type |-> content_type, breed |-> breed,
     timestamp |-> isoformat(now)]
\* Prediction(...).model_dump() with the timestamp as ISO string and _id = id
Prediction(uuid, filename, content_type, breed, now) ==
    [id |-> uuid, _id |-> uuid, filename |-> filename,
     content_type |-> content_type, breed |-> breed,
     timestamp |-> isoformat(now)]

\* the documents left in the collection by k earlier requests of earlier
\* runs of the server, one every half second, except that the first two
\* were given the same clock reading
Preload(k) ==
    { Prediction(uuid4(0, i),
                 IF i % 3 = 0 THEN S_GIR_PNG ELSE S_cow_jpg,
                 S_image_jpeg,
                 _mock_breed_choice(IF i % 3 = 0 THEN S_GIR_PNG ELSE S_cow_jpg),
                 IF i = 1 THEN 2 ELSE i) : i \in 1..k }

PreloadCounts == {0, RETAIN - 1, RETAIN}

PureIdle ==
    /\ fname = None /\ ctype = None /\ looks = "unset"
    /\ seed_text = <<>> /\ hpc = "off" /\ h = 0 /\ pos = 0 /\ choice = ""

ServerInit(k) ==
    /\ store = Preload(k)
    /\ files = {}
    /\ clock = k
    /\ nreq = 0
    /\ nfaults = 0
    /\ faulted = {}
    /\ req = [r \in Slots |-> IdleReq]
    /\ resp = NoResp

Init == (\E k \in PreloadCounts : ServerInit(k)) /\ PureIdle

----------------------------------------------------------------------------
(* db.predictions *)

\* the documents of S with the smallest timestamp
Oldest(S) == {d \in S : \A e \in S : ~ StrLess(e.timestamp, d.timestamp)}

RECURSIVE FirstOneMore(_, _)
FirstOneMore(S, n) ==
    IF n = -1 \/ S = {} THEN {{}}
    ELSE UNION { { {d} \cup T : T \in FirstOneMore(S \ {d}, n - 1) } : d \in Oldest(S) }

RECURSIVE FirstByTimestamp(_, _)
\* find().sort("timestamp", 1).limit(n): the sets of documents the cursor
\* can yield; documents with equal timestamps come in any order
FirstByTimestamp(S, n) ==
    IF n = 0 \/ S = {} THEN {{}}
    ELSE UNION { { {d} \cup T : T \in FirstByTimestamp(S \ {d}, n - 1) } : d \in Oldest(S) }

----------------------------------------------------------------------------
(* predict_cattle_breed *)

SetReq(r, rq) == req' = [req EXCEPT ![r] = rq]

Raise400As500(rq) == [rq EXCEPT !.pc = "done", !.status = 500]
\* raise HTTPException(status_code=400) at lines 120 and 124
Raise400(rq) == [rq EXCEPT !.pc = "done", !.status = 400]

Raise500As400(rq, step) ==
    [rq EXCEPT !.pc = "done", !.status = 400, !.logged = @ + 1,
               !.failed = @ \cup {step}]
\* except Exception: logging.exception(...); raise HTTPException(500)
Raise500(rq, step) ==
    [rq EXCEPT !.pc = "done", !.status = 500, !.logged = @ + 1,
               !.failed = @ \cup {step}]

\* the slot that takes the next request
FreeSlot(r) ==
    /\ req[r].pc = "idle"
    /\ \A s \in Slots : s < r => req[s].pc # "idle"

\* file.filename or ""
OrEmpty(filename) == IF filename = None THEN <<>> ELSE filename

\* the verdict of the heuristic on each upload
UploadLooks ==
    [up \in Uploads |-> _looks_like_cow(OrEmpty(up.filename), up.content_type)]

\* lines 119-124: the upload is rejected
Predict_Reject(r, up) ==
    /\ FreeSlot(r)
    /\ \/ up.content_type = None
       \/ ~ UploadLooks[up]
    /\ SetReq(r, Raise400([IdleReq EXCEPT !.filename = up.filename,
                                          !.content_type = up.content_type,
                                          !.before = Cardinality(store)]))
    /\ UNCHANGED <<store, files, clock, nreq, nfaults, faulted>>
    /\ UNCHANGED <<pureVars, resp>>

\* lines 119-132: the upload is accepted, temp_path is chosen, and the
\* handler awaits file.read()
Predict_Accept(r, up) ==
    /\ FreeSlot(r)
    /\ up.content_type # None
    /\ UploadLooks[up]
    /\ nreq' = nreq + 1
    /\ SetReq(r, [IdleReq EXCEPT
                    !.pc = "read",
                    !.n = nreq + 1,
                    !.filename = up.filename,
                    !.content_type = up.content_type,
                    !.before = Cardinality(store),
                    !.temp_path = [uuid |-> uuid4(nreq + 1, 1),
                                   suffix |-> IF OrEmpty(up.filename) # <<>>
                                              THEN suffix(up.filename) ELSE <<>>]])
    /\ UNCHANGED <<store, files, clock, nfaults, faulted>>
    /\ UNCHANGED <<pureVars, resp>>

\* line 132 raises
Predict_ReadFails(r) ==
    /\ req[r].pc = "read"
    /\ nfaults < MaxFaults
    /\ nfaults' = nfaults + 1
    /\ SetReq(r, Raise500(req[r], "read"))
    /\ UNCHANGED <<store, files, clock, nreq, faulted>>
    /\ UNCHANGED <<pureVars, resp>>

\* lines 133-134 raise: open() fails and there is no file, or write()
\* fails and the file is there
Predict_WriteFails(r) ==
    /\ req[r].pc = "read"
    /\ nfaults < MaxFaults
    /\ nfaults' = nfaults + 1
    /\ \/ files' = files
       \/ files' = files \cup {req[r].temp_path}
    /\ SetReq(r, Raise500([req[r] EXCEPT !.issued = @ \cup {"write"}], "write"))
    /\ UNCHANGED <<store, clock, nreq, faulted>>
    /\ UNCHANGED <<pureVars, resp>>

SeedDefault(filename) == S_default
\* seed = file.filename or "default"
Seed(filename) == IF OrEmpty(filename) # <<>> THEN filename ELSE S_default

\* lines 132-146: the upload is read and written to temp_path, the breed
\* is chosen, the document is built, and the handler awaits insert_one
Predict_Write(r) ==
    /\ req[r].pc = "read"
    /\ files' = files \cup {req[r].temp_path}
    /\ clock' = clock + 1
    /\ LET predicted == _mock_breed_choice(Seed(req[r].filename))
       IN SetReq(r, [req[r] EXCEPT
                !.pc = "insert",
                !.issued = @ \cup {"write", "insert"},
                !.tries = @ + 1,
                !.predicted = predicted,
                !.doc = Prediction(uuid4(req[r].n, 2), req[r].filename,
                                   req[r].content_type, predicted, clock')])
    /\ UNCHANGED <<store, nreq, nfaults, faulted>>
    /\ UNCHANGED <<pureVars, resp>>

Predict_InsertFailsLate(r) ==
    /\ req[r].pc = "insert"
    /\ nfaults < MaxFaults
    /\ nfaults' = nfaults + 1
    /\ faulted' = faulted \cup {"insert"}
    /\ store' = store \cup {req[r].doc}
    /\ SetReq(r, Raise500([req[r] EXCEPT !.inserted = @ + 1], "insert"))
    /\ UNCHANGED <<files, clock, nreq>>
    /\ UNCHANGED <<pureVars, resp>>
\* line 146 raises: nothing is inserted
Predict_InsertFails(r) ==
    /\ req[r].pc = "insert"
    /\ nfaults < MaxFaults
    /\ nfaults' = nfaults + 1
    /\ faulted' = faulted \cup {"insert"}
    /\ SetReq(r, Raise500(req[r], "insert"))
    /\ UNCHANGED <<store, files, clock, nreq>>
    /\ UNCHANGED <<pureVars, resp>>

Predict_InsertNoPrune(r) ==
    /\ req[r].pc = "insert"
    /\ \A d \in store : d._id # req[r].doc._id
    /\ store' = store \cup {req[r].doc}
    /\ SetReq(r, [req[r] EXCEPT !.pc = "done", !.status = 200,
                                !.body = req[r].predicted, !.inserted = @ + 1])
    /\ UNCHANGED <<files, clock, nreq, nfaults, faulted>>
    /\ UNCHANGED <<pureVars, resp>>
\* line 146: the document is inserted; the handler awaits count_documents
Predict_Insert(r) ==
    /\ req[r].pc = "insert"
    /\ \A d \in store : d._id # req[r].doc._id
    /\ store' = store \cup {req[r].doc}
    /\ SetReq(r, [req[r] EXCEPT !.pc = "count", !.inserted = @ + 1,
                                !.issued = @ \cup {"count"}])
    /\ UNCHANGED <<files, clock, nreq, nfaults, faulted>>
    /\ UNCHANGED <<pureVars, resp>>

\* lines 161-168: temp_path.unlink(missing_ok=True), whose failure is
\* passed over, and return {"breed": predicted}; nf operations have
\* failed before the unlink
Return200(r, rq, nf) ==
    LET out == [rq EXCEPT !.pc = "done", !.status = 200, !.body = rq.predicted,
                          !.issued = @ \cup {"unlink"}]
    IN \/ /\ files' = files \ {rq.temp_path}
          /\ nfaults' = nf
          /\ SetReq(r, out)
       \/ /\ nf < MaxFaults
          /\ files' = files
          /\ nfaults' = nf + 1
          /\ SetReq(r, [out EXCEPT !.failed = @ \cup {"unlink"}])

Predict_PruneRaises(r) ==
    /\ req[r].pc \in PruneSteps
    /\ nfaults < MaxFaults
    /\ nfaults' = nfaults + 1
    /\ faulted' = faulted \cup {"prune"}
    /\ SetReq(r, Raise500(req[r], req[r].pc))
    /\ UNCHANGED <<store, files, clock, nreq>>
    /\ UNCHANGED <<pureVars, resp>>
\* a step of the pruning raises: except Exception: pass
Predict_PruneFails(r) ==
    /\ req[r].pc \in PruneSteps
    /\ nfaults < MaxFaults
    /\ faulted' = faulted \cup {"prune"}
    /\ Return200(r, [req[r] EXCEPT !.failed = @ \cup {req[r].pc}], nfaults + 1)
    /\ UNCHANGED <<store, clock, nreq>>
    /\ UNCHANGED <<pureVars, resp>>

Predict_CountLax(r) ==
    /\ req[r].pc = "count"
    /\ LET total == Cardinality(store)
       IN IF total > RETAIN + 1
          THEN /\ SetReq(r, [req[r] EXCEPT !.pc = "find", !.total = total,
                                           !.issued = @ \cup {"find"}])
               /\ UNCHANGED <<files, nfaults>>
          ELSE Return200(r, [req[r] EXCEPT !.total = total], nfaults)
    /\ UNCHANGED <<store, clock, nreq, faulted>>
    /\ UNCHANGED <<pureVars, resp>>
\* lines 151-152: total = count_documents({}); if total > 20 the handler
\* awaits the find, otherwise it returns
Predict_Count(r) ==
    /\ req[r].pc = "count"
    /\ LET total == Cardinality(store)
       IN IF total > RETAIN
          THEN /\ SetReq(r, [req[r] EXCEPT !.pc = "find", !.total = total,
                                           !.issued = @ \cup {"find"}])
               /\ UNCHANGED <<files, nfaults>>
          ELSE Return200(r, [req[r] EXCEPT !.total = total], nfaults)
    /\ UNCHANGED <<store, clock, nreq, faulted>>
    /\ UNCHANGED <<pureVars, resp>>

Predict_FindOne(r) ==
    /\ req[r].pc = "find"
    /\ \E T \in FirstByTimestamp(store, 1) :
         LET to_delete == {d._id : d \in T}
         IN IF to_delete # {}
            THEN /\ SetReq(r, [req[r] EXCEPT !.pc = "delete", !.to_delete = to_delete,
                                             !.issued = @ \cup {"delete"}])
                 /\ UNCHANGED <<files, nfaults>>
            ELSE Return200(r, req[r], nfaults)
    /\ UNCHANGED <<store, clock, nreq, faulted>>
    /\ UNCHANGED <<pureVars, resp>>
\* lines 154-156: to_delete = the _id of the total - 20 oldest documents;
\* if there are any the handler awaits delete_many, otherwise it returns
Predict_Find(r) ==
    /\ req[r].pc = "find"
    /\ \E T \in FirstByTimestamp(store, req[r].total - RETAIN) :
         LET to_delete == {d._id : d \in T}
         IN IF to_delete # {}
            THEN /\ SetReq(r, [req[r] EXCEPT !.pc = "delete", !.to_delete = to_delete,
                                             !.issued = @ \cup {"delete"}])
                 /\ UNCHANGED <<files, nfaults>>
            ELSE Return200(r, req[r], nfaults)
    /\ UNCHANGED <<store, clock, nreq, faulted>>
    /\ UNCHANGED <<pureVars, resp>>

Predict_DeleteKeeps(r) ==
    /\ req[r].pc = "delete"
    /\ store' = store
    /\ Return200(r, req[r], nfaults)
    /\ UNCHANGED <<clock, nreq, faulted>>
    /\ UNCHANGED <<pureVars, resp>>
Predict_DeleteOne(r) ==
    /\ req[r].pc = "delete"
    /\ \E d \in store : d._id \in req[r].to_delete /\ store' = store \ {d}
    /\ Return200(r, req[r], nfaults)
    /\ UNCHANGED <<clock, nreq, faulted>>
    /\ UNCHANGED <<pureVars, resp>>
\* line 157: delete_many({"_id": {"$in": to_delete}}), then the handler returns
Predict_Delete(r) ==
    /\ req[r].pc = "delete"
    /\ store' = {d \in store : d._id \notin req[r].to_delete}
    /\ Return200(r, req[r], nfaults)
    /\ UNCHANGED <<clock, nreq, faulted>>
    /\ UNCHANGED <<pureVars, resp>>

\* the response has been sent and the slot takes the next request
Retire(r) ==
    /\ req[r].pc = "done"
    /\ SetReq(r, IdleReq)
    /\ UNCHANGED <<store, files, clock, nreq, nfaults, faulted>>
    /\ UNCHANGED <<pureVars, resp>>

InFlight(r) == req[r].pc \notin {"idle", "done"}

\* a response is sent, and its slot freed, before any handler resumes
Ready == \A s \in Slots : req[s].pc # "done"

\* every slot is idle
Quiet == \A s \in Slots : req[s].pc = "idle"

----------------------------------------------------------------------------
(* get_recent_predictions and get_analytics_summary *)

\* the values of the query parameter limit
Limits == {-3, 0, 1, 2, 20, 21, 50, 51, 1000}

\* min(a, b) and max(a, b) of two integers
min(a, b) == IF a <= b THEN a ELSE b
max(a, b) == IF a >= b THEN a ELSE b

ClampFromZero(limit) == max(0, min(50, limit))
\* limit = max(1, min(50, limit))
Clamp(limit) == max(1, min(50, limit))

\* the documents of S with the largest timestamp
Newest(S) == {d \in S : \A e \in S : ~ StrLess(d.timestamp, e.timestamp)}

\* find().sort("timestamp", -1): the orders the cursor can yield the
\* documents of S in; documents with equal timestamps come in any order
SortDescending(S) ==
    LET RECURSIVE Desc(_)
        Desc(T) == IF T = {} THEN {<<>>}
                   ELSE UNION { { <<d>> \o t : t \in Desc(T \ {d}) } : d \in Newest(T) }
    IN Desc(S)

\* the projection {"_id": 0}
WithoutKey(d) ==
    [id |-> d.id, filename |-> d.filename, content_type |-> d.content_type,
     breed |-> d.breed, timestamp |-> d.timestamp]

\* .limit(n).to_list(length=n) of a cursor that yields sorted
ToList(sorted, n) == SubSeq(sorted, 1, min(n, Len(sorted)))

RecentThenPrune ==
    /\ resp = NoResp
    /\ \E sorted \in SortDescending(store), limit \in Limits :
          LET found == ToList(sorted, Clamp(limit))
          IN /\ resp' = [op |-> "recent", limit |-> limit,
                         preds |-> [i \in 1..Len(found) |-> WithoutKey(found[i])]]
             /\ store' = {sorted[i] : i \in 1..min(RETAIN, Len(sorted))}
    /\ UNCHANGED <<files, clock, nreq, nfaults, faulted, req, pureVars>>
\* GET /predictions: lines 178-182
get_recent_predictions ==
    /\ resp = NoResp
    /\ \E sorted \in SortDescending(store), limit \in Limits :
          LET found == ToList(sorted, Clamp(limit))
          IN resp' = [op |-> "recent", limit |-> limit,
                      preds |-> [i \in 1..Len(found) |-> WithoutKey(found[i])]]
    /\ UNCHANGED <<serverVars, pureVars>>

\* None where a breed is expected
NoBreed == "None"

GroupAll(S) ==
    { [_id |-> b, count |-> Cardinality(S)] : b \in {d.breed : d \in S} }
\* {"$group": {"_id": "$breed", "count": {"$sum": 1}}}
Group(S) ==
    { [_id |-> b, count |-> Cardinality({d \in S : d.breed = b})] :
        b \in {d.breed : d \in S} }

\* {"$sort": {"count": -1}}: the orders the pipeline can yield the groups
\* in; groups with equal counts come in any order
SortByCount(G) ==
    LET RECURSIVE Desc(_)
        Desc(T) == IF T = {} THEN {<<>>}
                   ELSE UNION { { <<g>> \o t : t \in Desc(T \ {g}) } :
                                  g \in {x \in T : \A y \in T : y.count <= x.count} }
    IN Desc(G)

\* {a["_id"]: a["count"] for a in agg}
DictOf(agg) ==
    [b \in {agg[i]._id : i \in 1..Len(agg)} |->
        agg[CHOOSE i \in 1..Len(agg) :
                agg[i]._id = b /\ \A j \in (i+1)..Len(agg) : agg[j]._id # b].count]

RECURSIVE sum(_, _)
\* sum(by_breed.values()), the values taken in the order of the keys
sum(by_breed, keys) ==
    IF keys = <<>> THEN 0 ELSE by_breed[Head(keys)] + sum(by_breed, Tail(keys))

\* max(by_breed, key=by_breed.get): the first key, in the order of the
\* dict, whose value is the greatest
MaxKey(by_breed, keys) ==
    keys[CHOOSE i \in 1..Len(keys) :
            /\ \A j \in 1..Len(keys) : by_breed[keys[j]] <= by_breed[keys[i]]
            /\ \A j \in 1..(i-1) : by_breed[keys[j]] < by_breed[keys[i]]]

\* GET /analytics/summary: lines 188-196
get_analytics_summary ==
    /\ resp = NoResp
    /\ \E sorted \in SortByCount(Group(store)) :
          LET agg == ToList(sorted, 100)
              keys == [i \in 1..Len(agg) |-> agg[i]._id]
              by_breed == DictOf(agg)
          IN resp' = [op |-> "summary",
                      by_breed |-> by_breed,
                      total |-> sum(by_breed, keys),
                      most_common |-> IF keys # <<>> THEN MaxKey(by_breed, keys)
                                      ELSE NoBreed]
    /\ UNCHANGED <<serverVars, pureVars>>

\* the response of the read handler has been sent
Read_Return ==
    /\ resp # NoResp
    /\ resp' = NoResp
    /\ UNCHANGED <<serverVars, pureVars>>

\* one request at a time, any operation may fail
NextSeq ==
    \/ \E r \in Slots, up \in Uploads : Quiet /\ Predict_Reject(r, up)
    \/ \E r \in Slots, up \in Uploads : Quiet /\ nreq < MaxReq /\ Predict_Accept(r, up)
    \/ \E r \in Slots : Predict_ReadFails(r)
    \/ \E r \in Slots : Predict_WriteFails(r)
    \/ \E r \in Slots : Predict_Write(r)
    \/ \E r \in Slots : Predict_InsertFails(r)
    \/ \E r \in Slots : Predict_Insert(r)
    \/ \E r \in Slots : Predict_PruneFails(r)
    \/ \E r \in Slots : Predict_Count(r)
    \/ \E r \in Slots : Predict_Find(r)
    \/ \E r \in Slots : Predict_Delete(r)
    \/ \E r \in Slots : Retire(r)

SpecSeq == Init /\ [][NextSeq]_vars

\* MaxConc handlers interleaved at their awaits, any operation may fail
Next ==
    \/ \E r \in Slots, up \in Uploads : Ready /\ Predict_Reject(r, up)
    \/ \E r \in Slots, up \in Uploads : Ready /\ nreq < MaxConc /\ Predict_Accept(r, up)
    \/ \E r \in Slots : Ready /\ Predict_ReadFails(r)
    \/ \E r \in Slots : Ready /\ Predict_WriteFails(r)
    \/ \E r \in Slots : Ready /\ Predict_Write(r)
    \/ \E r \in Slots : Ready /\ Predict_InsertFails(r)
    \/ \E r \in Slots : Ready /\ Predict_Insert(r)
    \/ \E r \in Slots : Ready /\ Predict_PruneFails(r)
    \/ \E r \in Slots : Ready /\ Predict_Count(r)
    \/ \E r \in Slots : Ready /\ Predict_Find(r)
    \/ \E r \in Slots : Ready /\ Predict_Delete(r)
    \/ \E r \in Slots : Retire(r)

Spec == Init /\ [][Next]_vars

\* MaxConc handlers interleaved at their awaits; every store operation
\* succeeds, the unlink may fail
NextConc ==
    \/ \E r \in Slots, up \in Uploads : Ready /\ Predict_Reject(r, up)
    \/ \E r \in Slots, up \in Uploads : Ready /\ nreq < MaxConc /\ Predict_Accept(r, up)
    \/ \E r \in Slots : Ready /\ Predict_Write(r)
    \/ \E r \in Slots : Ready /\ Predict_Insert(r)
    \/ \E r \in Slots : Ready /\ Predict_Count(r)
    \/ \E r \in Slots : Ready /\ Predict_Find(r)
    \/ \E r \in Slots : Ready /\ Predict_Delete(r)
    \/ \E r \in Slots : Retire(r)

SpecConc == Init /\ [][NextConc]_vars

\* one predict request at a time, whose prune steps and whose unlink may
\* fail, and the two read handlers between its steps
NextRead ==
    \/ get_recent_predictions
    \/ get_analytics_summary
    \/ Read_Return
    \/ \E r \in Slots, up \in Uploads : resp = NoResp /\ Quiet /\ Predict_Reject(r, up)
    \/ \E r \in Slots, up \in Uploads :
          resp = NoResp /\ Quiet /\ nreq < MaxReq /\ Predict_Accept(r, up)
    \/ \E r \in Slots : resp = NoResp /\ Predict_Write(r)
    \/ \E r \in Slots : resp = NoResp /\ Predict_Insert(r)
    \/ \E r \in Slots : resp = NoResp /\ Predict_PruneFails(r)
    \/ \E r \in Slots : resp = NoResp /\ Predict_Count(r)
    \/ \E r \in Slots : resp = NoResp /\ Predict_Find(r)
    \/ \E r \in Slots : resp = NoResp /\ Predict_Delete(r)
    \/ \E r \in Slots : resp = NoResp /\ Retire(r)

SpecRead == Init /\ [][NextRead]_vars

----------------------------------------------------------------------------
(* The two pure functions applied to arguments built from pieces *)

Pieces == { <<"c","o","w">>, <<"O","X">>, <<"s","u","n">>,
            <<".","j","p","g">>, <<".","P","N","G">>, <<".","b","m","p">>,
            <<".">>, <<"/">> }

RECURSIVE Concats(_)
\* the strings made of n pieces
Concats(n) ==
    IF n = 0 THEN {<<>>}
    ELSE {p \o t : p \in Pieces, t \in Concats(n - 1)}

Strings == UNION {Concats(n) : n \in 0..MaxParts}

ContentTypes == { None, <<>>, S_image_jpeg, S_IMAGE_PNG,
                  <<"I","m","a","g","e","/","W","e","b","P">>,
                  <<"i","m","a","g","e","/","b","m","p">> }

PureInit ==
    /\ ServerInit(0)
    /\ \E s \in Strings :
          /\ seed_text = s
          /\ \/ fname = s
             \/ s = <<>> /\ fname = None
    /\ ctype \in ContentTypes
    /\ looks = "unset" /\ hpc = "off" /\ h = 0 /\ pos = 0 /\ choice = ""

\* _looks_like_cow(fname, ctype) is called and returns
Call_looks_like_cow ==
    /\ looks = "unset"
    /\ looks' = IF _looks_like_cow(fname, ctype) THEN "accept" ELSE "reject"
    /\ UNCHANGED <<fname, ctype, seed_text, hpc, h, pos, choice>>
    /\ UNCHANGED <<serverVars, resp>>

\* line 95: _mock_breed_choice(seed_text) is called, h = 0
Hash_Enter ==
    /\ looks # "unset"
    /\ hpc = "off"
    /\ hpc' = "loop"
    /\ h' = HashInit
    /\ pos' = 1
    /\ UNCHANGED <<fname, ctype, looks, seed_text, choice>>
    /\ UNCHANGED <<serverVars, resp>>

\* lines 96-97: one iteration of the loop
Hash_Loop ==
    /\ hpc = "loop"
    /\ pos <= Len(seed_text)
    /\ h' = HashStep(h, seed_text[pos])
    /\ pos' = pos + 1
    /\ UNCHANGED <<fname, ctype, looks, seed_text, hpc, choice>>
    /\ UNCHANGED <<serverVars, resp>>

\* lines 98-99: the loop is over, BREEDS[h % len(BREEDS)] is returned
Hash_Return ==
    /\ hpc = "loop"
    /\ pos > Len(seed_text)
    /\ hpc' = "done"
    /\ choice' = BreedAt(h)
    /\ UNCHANGED <<fname, ctype, looks, seed_text, h, pos>>
    /\ UNCHANGED <<serverVars, resp>>

NextPure ==
    \/ Call_looks_like_cow
    \/ Hash_Enter
    \/ Hash_Loop
    \/ Hash_Return

SpecPure == PureInit /\ [][NextPure]_vars

----------------------------------------------------------------------------
(* Properties *)

Done(r) == req[r].pc = "done"

\* the upload of the request in slot r is one the handler rejects
Rejected(rq) ==
    \/ rq.content_type = None
    \/ ~ _looks_like_cow(OrEmpty(rq.filename), rq.content_type)

\* C1: with one request at a time and no failed prune step, the store
\* holds at most 20 documents whenever no request is in flight
C1_SequentialRetention ==
    ((\A s \in Slots : ~ InFlight(s)) /\ "prune" \notin faulted)
        => Cardinality(store) <= 20

\* a request that found 20 documents has completed, has pruned, and 20 are left
C1_Witness ==
    \E r \in Slots :
        /\ Done(r) /\ req[r].status = 200
        /\ nreq = MaxReq
        /\ "prune" \notin faulted
        /\ req[r].before = 20 /\ req[r].total = 21
        /\ Cardinality(store) = 20

\* C2 as stated: a successful request run alone leaves one document more
\* than it found, whatever it found
C2_CountPlusOne ==
    \A r \in Slots :
        (Done(r) /\ req[r].status = 200)
            => Cardinality(store) = req[r].before + 1

\* C2 amended: a successful request run alone inserts one document; it
\* leaves one more than it found when that is at most 20 or when a step
\* of its pruning failed, and leaves 20 otherwise
C2_CountPlusOneUpTo20 ==
    \A r \in Slots :
        (Done(r) /\ req[r].status = 200)
            => /\ req[r].inserted = 1
               /\ Cardinality(store) =
                    IF req[r].before + 1 > 20 /\ req[r].failed \cap PruneSteps = {}
                    THEN 20
                    ELSE req[r].before + 1

\* a successful request that found 20 documents and leaves 20
C2_Witness ==
    \E r \in Slots :
        /\ Done(r) /\ req[r].status = 200
        /\ req[r].before = 20
        /\ req[r].failed = {}
        /\ req[r].doc \in store
        /\ Cardinality(store) = 20

\* C3: the step that receives an upload the handler rejects ends the
\* request with 400, leaves the store and the uploads directory as they
\* were, and has issued no operation
C3_RejectTouchesNothing ==
    [][\A r \in Slots :
          (req[r].pc = "idle" /\ req'[r].pc # "idle" /\ Rejected(req'[r]))
            => /\ req'[r].pc = "done"
               /\ req'[r].status = 400
               /\ store' = store
               /\ files' = files
               /\ req'[r].issued = {}
               /\ req'[r].tries = 0]_vars

\* a rejected request has completed beside a store that holds documents
C3_Witness ==
    \E r \in Slots :
        /\ Done(r) /\ req[r].status = 400
        /\ req[r].content_type # None
        /\ req[r].before = 20
        /\ Cardinality(store) = 20 /\ req[r].issued = {}

\* C4: when no store operation fails and no request is in flight, the
\* store holds at most 20 documents
C4_EventualRetention ==
    (\A s \in Slots : ~ InFlight(s)) => Cardinality(store) <= 20

\* every request has completed, one of them counted 22 documents, and
\* at most 20 are left
C4_Witness ==
    /\ nreq = MaxConc
    /\ \A s \in Slots : ~ InFlight(s)
    /\ \E r \in Slots : Done(r) /\ req[r].status = 200 /\ req[r].total >= 22
    /\ Cardinality(store) <= 20

\* C5: a step in which a prune step or the unlink of a request fails ends
\* the request with 200 and the breed it chose; the failure of a prune
\* step leaves the store as it was, and the document of the request stays
C5_BestEffort ==
    [][\A r \in Slots :
          (req[r].inserted = 1 /\ req'[r].failed \ req[r].failed # {})
            => /\ req'[r].pc = "done"
               /\ req'[r].status = 200
               /\ req'[r].body = req[r].predicted
               /\ req'[r].body \in Range(BREEDS)
               /\ req'[r].failed \cap PruneSteps # {} => store' = store
               /\ req[r].doc \in store => req[r].doc \in store']_vars

\* a request whose delete and whose unlink both failed has answered 200
C5_Witness ==
    \E r \in Slots :
        /\ Done(r) /\ req[r].status = 200
        /\ "delete" \in req[r].failed /\ "unlink" \in req[r].failed
        /\ req[r].doc \in store
        /\ Cardinality(store) = 21

\* C6: a completed request has status 400, 500 or 200: 400 exactly when
\* the upload is one the handler rejects, 500 exactly when it is not and
\* the read, the write or the insert failed, 200 otherwise
C6_Outcomes ==
    \A r \in Slots :
        Done(r) =>
            LET internal == req[r].failed \cap {"read", "write", "insert"} # {}
            IN /\ req[r].status \in {200, 400, 500}
               /\ req[r].status = 400 <=> Rejected(req[r])
               /\ req[r].status = 500 <=> (~ Rejected(req[r]) /\ internal)
               /\ req[r].status = 200 <=> (~ Rejected(req[r]) /\ ~ internal)

\* a request whose insert failed has answered 500
C6_Witness ==
    \E r \in Slots :
        /\ Done(r) /\ req[r].status = 500
        /\ "insert" \in req[r].failed
        /\ ~ Rejected(req[r])

\* C7: a request calls insert_one at most once; at most one stored
\* document is its own; on 200 it has inserted one document, on 400 and
\* 500 none
C7_AtMostOneInsert ==
    \A r \in Slots :
        /\ req[r].tries <= 1
        /\ req[r].inserted <= req[r].tries
        /\ req[r].n # 0 =>
              Cardinality({d \in store : d.id[1] = req[r].n}) <= req[r].inserted
        /\ (Done(r) /\ req[r].status = 200) => req[r].inserted = 1
        /\ (Done(r) /\ req[r].status \in {400, 500}) => req[r].inserted = 0

\* a request has answered 500 after its one insert_one failed
C7_Witness ==
    \E r \in Slots :
        /\ Done(r) /\ req[r].status = 500
        /\ req[r].tries = 1 /\ req[r].inserted = 0
        /\ req[r].doc \notin store

\* the content type is present and, lower-cased, an allowed one
CtAllowed(ct) == ct # None /\ lower(ct) \in ALLOWED_CT

\* the lower-cased filename contains a cattle keyword
HasKeyword(filename) == \E kw \in COW_KEYWORDS : Contains(lower(filename), kw)

\* the text of the filename from its last dot on
FromLastDot(filename) ==
    IF RFindDot(filename) = 0 THEN <<>>
    ELSE SubSeq(filename, RFindDot(filename), Len(filename))

\* the last path component of the filename is longer than e and ends,
\* in any letter case, with e
NameEndsWith(filename, e) ==
    LET name == PathName(filename)
    IN /\ Len(name) > Len(e)
       /\ lower(SubSeq(name, Len(name) - Len(e) + 1, Len(name))) = e

\* C8 as stated, the extension of a filename being its text from its last
\* dot on: the upload is accepted exactly when the content type is
\* allowed, the filename is present and not empty, its extension is an
\* allowed one and it contains a keyword
C8_GateIffLastDot ==
    looks # "unset" =>
        (looks = "accept" <=>
            /\ CtAllowed(ctype)
            /\ fname # None /\ fname # <<>>
            /\ lower(FromLastDot(fname)) \in ALLOWED_EXT
            /\ HasKeyword(fname))

\* C8 amended, the extension being that of the last path component of the
\* filename: the upload is accepted exactly when the content type is
\* allowed, the filename is present and not empty, its last path
\* component is an allowed extension after at least one character, and
\* the filename contains a keyword
C8_GateIffPathSuffix ==
    looks # "unset" =>
        (looks = "accept" <=>
            /\ CtAllowed(ctype)
            /\ fname # None /\ fname # <<>>
            /\ \E e \in ALLOWED_EXT : NameEndsWith(fname, e)
            /\ HasKeyword(fname))

\* an upload is accepted whose filename ends with a slash, so that its
\* text from the last dot on is no extension
C8_Witness ==
    /\ looks = "accept"
    /\ fname # None
    /\ lower(FromLastDot(fname)) \notin ALLOWED_EXT
    /\ lower(ctype) # ctype

\* C9: the breed a request answers with is BREEDS[h % 5] for the h of its
\* filename, it is the breed of the document the request has built, and
\* every stored document with the same filename has that breed
C9_BreedOfFilename ==
    \A r \in Slots :
        (Done(r) /\ req[r].status = 200) =>
            /\ req[r].body = BREEDS[(HashFold(0, req[r].filename, 1) % 5) + 1]
            /\ req[r].doc.breed = req[r].body
            /\ req[r].doc.filename = req[r].filename
            /\ \A d \in store : d.filename = req[r].filename => d.breed = req[r].body

\* a request has answered while another is in flight, and the store
\* holds a document of the same filename and another content type, and a
\* document of another filename and another breed
C9_Witness ==
    \E r \in Slots :
        /\ Done(r) /\ req[r].status = 200
        /\ \E s \in Slots : InFlight(s) /\ req[s].filename = req[r].filename
        /\ \E d \in store : /\ d.filename = req[r].filename
                            /\ d.content_type # req[r].content_type
                            /\ d.id # req[r].doc.id
        /\ \E d \in store : d.filename # req[r].filename /\ d.breed # req[r].body

\* C10: the accumulator is in 0..1000002 at every step, the value
\* returned is the breed at index h % 5, which is in 0..4, and the empty
\* seed yields Jersey
C10_HasherInRange ==
    /\ h \in 0..1000002
    /\ hpc = "done" =>
          /\ \E idx \in 0..4 : idx = h % Len(BREEDS) /\ choice = BREEDS[idx + 1]
          /\ pos = Len(seed_text) + 1
          /\ seed_text = <<>> => (h = 0 /\ choice = "Jersey")

\* the hasher has returned for a seed of eight characters or more
C10_Witness ==
    /\ hpc = "done"
    /\ Len(seed_text) >= 8
    /\ h > 131 * 131
    /\ choice \in Range(BREEDS)

\* the instant an ISO string of the model stands for, in half seconds
Instant(ts) ==
    LET digit(ch) == IndexOf(Digits, ch) - 1
    IN 2 * (10 * digit(ts[1]) + digit(ts[2])) + (IF ts[3] = "." THEN 1 ELSE 0)

C12_Summary ==
    resp.op = "summary" =>
        LET breeds == {d.breed : d \in store}
            count(b) == Cardinality({d \in store : d.breed = b})
        IN /\ DOMAIN resp.by_breed = breeds
           /\ \A b \in breeds : resp.by_breed[b] = count(b)
           /\ resp.total = Cardinality(store)
           /\ store = {} => (resp.total = 0 /\ resp.most_common = NoBreed)
           /\ store # {} =>
                 /\ resp.most_common \in breeds
                 /\ \A b \in breeds : count(b) <= count(resp.most_common)

\* summary() has returned for 21 stored records of two breeds
C12_Witness ==
    /\ resp.op = "summary"
    /\ Cardinality(DOMAIN resp.by_breed) = 2
    /\ resp.total = 21
    /\ resp.most_common = "Sahiwal"
    /\ resp.by_breed["Tharparkar"] < resp.by_breed["Sahiwal"]

\* C13: the step of recent(limit) and the step of summary() leave the
\* store, the uploads directory and every request in flight as they were
C13_ReadsChangeNothing ==
    [][(resp = NoResp /\ resp' # NoResp)
          => (store' = store /\ files' = files /\ req' = req)]_vars

\* summary() has returned while the store holds more than 20 records
C13_Witness ==
    /\ resp.op = "summary"
    /\ resp.total = 22
    /\ Cardinality(store) = 22
    /\ \E r \in Slots : InFlight(r)

\* C14: a delete_many step removes documents only from a store of more
\* than 20 documents, and leaves at least 20
C14_DeleteOnlyAboveBound ==
    [][\A r \in Slots :
          (req[r].pc = "delete" /\ req'[r].pc = "done" /\ store' # store)
            => /\ Cardinality(store) > 20
               /\ Cardinality(store') >= 20]_vars

\* no two documents of S have the same timestamp
DistinctTimestamps(S) ==
    \A d, e \in S : d.timestamp = e.timestamp => d = e

\* the k documents of S with the largest timestamps
Latest(S, k) ==
    {d \in S : Cardinality({e \in S : Instant(e.timestamp) > Instant(d.timestamp)}) < k}

\* C15: with one request at a time and a store of n documents with
\* pairwise distinct timestamps, a delete_many step that does not fail
\* removes n - 20 documents and leaves the 20 with the largest
\* timestamps; a prune step on a store of at most 20 documents, and every
\* prune step but the delete, removes nothing
C15_OldestFirst ==
    [][\A r \in Slots :
          (req[r].pc \in PruneSteps /\ req'[r].pc # req[r].pc
             /\ req'[r].failed = req[r].failed /\ DistinctTimestamps(store))
            => IF req[r].pc = "delete"
               THEN /\ Cardinality(store) > 20
                    /\ store' = Latest(store, 20)
                    /\ Cardinality(store \ store') = Cardinality(store) - 20
                    /\ Cardinality(store') = 20
               ELSE store' = store]_vars

\* a request has counted 22 documents with distinct timestamps and has
\* deleted the two oldest
C15_Witness ==
    \E r \in Slots :
        /\ Done(r) /\ req[r].status = 200
        /\ req[r].failed \cap PruneSteps = {}
        /\ req[r].total = 22
        /\ Cardinality(req[r].to_delete) = 2
        /\ uuid4(0, 3) \in req[r].to_delete
        /\ \E d \in Preload(RETAIN) : d.id \notin req[r].to_delete /\ d \notin store
        /\ DistinctTimestamps(store)
        /\ Cardinality(store) = 20

\* C16: every stored document has a breed of BREEDS and its id as _id, no
\* two stored documents have the same id; a step changes no field of a
\* stored document: a document that is in the store after the step and
\* was not before has an id no stored document had, and is the document
\* a request inserts
C16_RecordInvariant ==
    /\ [](/\ \A d \in store : d.breed \in Range(BREEDS) /\ d._id = d.id
          /\ Cardinality({d.id : d \in store}) = Cardinality(store))
    /\ [][\A e \in store' \ store :
             /\ \A d \in store : d.id # e.id
             /\ \E r \in Slots : req[r].pc = "insert" /\ e = req[r].doc]_vars

\* the store holds the documents of two requests that were in flight
\* together, beside documents of earlier runs, and older ones are gone
C16_Witness ==
    /\ \E d, e \in store : d.id[1] = 1 /\ e.id[1] = 2 /\ d.breed = e.breed
    /\ \E d \in store : d.id[1] = 0
    /\ \E d \in Preload(RETAIN) : d \notin store
    /\ \A r \in Slots : ~ InFlight(r)

\* C17: a request that has responded has logged every failure of a step
\* of its pruning and of its unlink
C17_BestEffortLogged ==
    \A r \in Slots :
        Done(r) =>
            req[r].logged >= Cardinality(req[r].failed \cap (PruneSteps \cup {"unlink"}))

\* C18: once a request has responded, with any status, and its unlink
\* has not failed, its temp_path is not in the uploads directory
C18_ScratchTransient ==
    \A r \in Slots :
        (Done(r) /\ "unlink" \notin req[r].failed)
            => req[r].temp_path \notin files

\* C19: with one request at a time, a request that found more than 20
\* documents and whose prune steps did not fail leaves exactly 20
C19_SelfHealing ==
    \A r \in Slots :
        (Done(r) /\ req[r].status = 200
           /\ req[r].before > 20 /\ req[r].failed \cap PruneSteps = {})
            => Cardinality(store) = 20

\* after two failed prunes a request has found 22 documents, has counted
\* 23, has deleted three and leaves 20
C19_Witness ==
    \E r \in Slots :
        /\ Done(r) /\ req[r].status = 200
        /\ "prune" \in faulted
        /\ req[r].failed \cap PruneSteps = {}
        /\ req[r].before = 22 /\ req[r].total = 23
        /\ Cardinality(req[r].to_delete) = 3
        /\ Cardinality(store) = 20

\* the requests that have inserted their document and have not yet
\* completed their pruning
Pruning == {r \in Slots : req[r].pc \in PruneSteps}

\* C20: when no store operation fails, the store holds at most 20
\* documents more than there are requests between their insert and the
\* end of their pruning
C20_BoundedOvershoot ==
    Cardinality(store) <= 20 + Cardinality(Pruning)

\* two requests have inserted and none has pruned yet: 22 documents
C20_Witness ==
    /\ Cardinality(Pruning) = 2
    /\ Cardinality(store) = 22
    /\ \E r \in Pruning : req[r].pc = "delete"

====
